---- MODULE Spec2Model ----
(***************************************************************************)
(* Threat-intelligence graph: the Neo4j connection manager, the IOC and    *)
(* campaign services, the Kafka consumer and the stream processor.         *)
(*                                                                         *)
(* Confidence values are kept in tenths (0.9 is 9, 1.5 is 15): the code    *)
(* only compares and stores them.  Timestamps (first_seen, last_seen,      *)
(* search_timestamp) are left out: no branch of the code reads them.       *)
(* An optional value is a sequence: <<>> is None, <<v>> is v.              *)
(***************************************************************************)
EXTENDS Integers, Sequences, FiniteSets, Bags, TLC

VARIABLES
    driver,        \* Neo4jConnection.driver: 0 is None, n > 0 the n-th driver built
    connected,     \* Neo4jConnection._connected
    driversBuilt,  \* number of GraphDatabase.driver(...) constructions so far
    storeUp,       \* environment: the Neo4j server is reachable
    idConstraint,  \* the store enforces unique IOC / Campaign ids (schema installed)
    iocs,          \* :IOC nodes, in creation order
    campaigns,     \* :Campaign nodes, in creation order
    actors,        \* :ThreatActor nodes, in creation order
    rels,          \* relationships: a bag of [type, src, dst]
    last,          \* the last call and what it returned to its caller
    log,           \* broker: the records of the topic partition
    position,      \* KafkaConsumer: offset of the next record to yield
    committed,     \* broker: committed offset of the consumer group
    running,       \* ThreatIntelligenceConsumer.running
    closed,        \* KafkaConsumer closed
    cpc,           \* position of start_consuming
    inHand,        \* the record yielded by the iterator, <<>> when none
    written,       \* offsets of the records whose graph write succeeded
    tpc,           \* per caller thread: position inside get_session / connect
    tdrv           \* per caller thread: the driver it holds (0 none)

connVars == <<driver, connected, driversBuilt, storeUp>>
storeVars == <<idConstraint, iocs, campaigns, actors, rels>>
consumerVars == <<log, position, committed, running, closed, cpc, inHand, written>>
threadVars == <<tpc, tdrv>>
vars == <<driver, connected, driversBuilt, storeUp, idConstraint, iocs, campaigns,
          actors, rels, last, log, position, committed, running, closed, cpc,
          inHand, written, tpc, tdrv>>

(***************************************************************************)
(* Bounds of the model.                                                    *)
(***************************************************************************)
MaxIocNodes == 2
MaxCampaignNodes == 1
MaxActorNodes == 1
MaxRels == 2
MaxDrivers == 3
MaxLog == 2
NCallers == 3
MaxCount == 12

(***************************************************************************)
(* Input domains.                                                          *)
(***************************************************************************)
Absent == "absent"
IocIds == {"ioc-1", "ioc-2"}
AssetIds == {"asset-1", "asset-9"}
\* the :Asset nodes of the store; no operation of the services creates one
AssetNodes == <<[id |-> "asset-1"]>>
CampaignIds == {"camp-1"}
CampaignNames == {"OpA"}
ActorIds == {"ta-1"}
ActorNames == {"APT29"}
ConfInputs == {9, 15}

\* class IOCType: the members the model uses
IOCType == {"ip_address", "domain"}
\* class IOCCategory: the members the model uses
IOCCategory == {"malware", "suspicious"}

\* Field(..., ge=0.0, le=1.0) of IOC.confidence and Campaign.confidence
ConfidenceValid(c) == c >= 0 /\ c <= 10

Range(s) == {s[i] : i \in 1..Len(s)}

(***************************************************************************)
(* Neo4jConnection                                                         *)
(***************************************************************************)

\* connect(): builds a driver, runs the test statement, records the outcome.
\* The result is the new <<driver, connected, driversBuilt>>.
ConnectResult(built, up) ==
    [driver |-> built + 1, connected |-> up, driversBuilt |-> built + 1]

\* get_session(): connects first when there is no driver or no connection.
NeedsConnect(drv, conn) == drv = 0 \/ ~conn

GetSessionResult(drv, conn, built, up) ==
    IF NeedsConnect(drv, conn)
    THEN ConnectResult(built, up)
    ELSE [driver |-> drv, connected |-> conn, driversBuilt |-> built]

\* execute_query / execute_write_query: what becomes of the statement.
\*   "not_connected"  is_connected() is False: [] is returned at once
\*   "unreachable"    session.run raised, the store is down: [] is returned
\*   "rejected"       session.run raised, the backend refused the statement: []
\*   "ok"             the statement ran and its rows are returned
ExecOutcome(conn, up, stmtOk) ==
    IF ~conn THEN "not_connected"
    ELSE IF ~up THEN "unreachable"
    ELSE IF ~stmtOk THEN "rejected"
    ELSE "ok"

\* The statement reaches the store and takes effect.
Runs == ExecOutcome(connected, storeUp, TRUE) = "ok"

(***************************************************************************)
(* The graph store.  A node reference is <<label, index>>: the index of    *)
(* the node among the nodes of that label, in creation order.              *)
(***************************************************************************)
Some(v) == <<v>>
None == <<>>
OrElse(opt, default) == IF opt = None THEN default ELSE opt[1]

\* MATCH (ioc:IOC {id: $id}): every node with that id
IocMatches(s, id) == {i \in 1..Len(s) : s[i].id = id}
CampaignById(s, id) == {i \in 1..Len(s) : s[i].id = id}
CampaignByName(s, name) == {i \in 1..Len(s) : s[i].name = name}
ActorById(s, id) == {i \in 1..Len(s) : s[i].id = id}
ActorByName(s, name) == {i \in 1..Len(s) : s[i].name = name}
AssetMatches(id) == {i \in 1..Len(AssetNodes) : AssetNodes[i].id = id}

Refs(label, S) == {<<label, x>> : x \in S}
Pairs(type, srcs, dsts) == {[type |-> type, src |-> s, dst |-> d] : s \in srcs, d \in dsts}

\* CREATE (a)-[:T]->(b) for every matched pair: one more relationship each.
CreateRels(rs, type, srcs, dsts) == rs (+) SetToBag(Pairs(type, srcs, dsts))

\* MERGE (a)-[:T]->(b) for every matched pair: only the missing ones are added.
MergeRels(rs, type, srcs, dsts) ==
    rs (+) SetToBag({r \in Pairs(type, srcs, dsts) : ~BagIn(r, rs)})

RelCount(rs, type, src, dst) == CopiesIn([type |-> type, src |-> src, dst |-> dst], rs)

(***************************************************************************)
(* Stream processor (ThreatIntelligenceProcessor).  A payload is a record  *)
(* of all the keys the handlers read; Absent marks a missing key, None a   *)
(* missing confidence, {} a missing or empty list.                         *)
(***************************************************************************)
DefaultConfidence == 5

Data(type, id, name, category, confidence, threat_actors, campaignNames, iocIds) ==
    [type |-> type, id |-> id, name |-> name, category |-> category,
     confidence |-> confidence, threat_actors |-> threat_actors,
     campaigns |-> campaignNames, iocs |-> iocIds]

\* an indicator, without attribution lists
IocData ==
    {Data("ioc", id, Absent, cat, conf, {}, {}, {}) :
        id \in IocIds \cup {Absent}, cat \in {Absent, "malware"},
        conf \in {None, Some(9), Some(15)}}
\* an indicator with the lists that the relationship statements read
AttributedIocData ==
    {Data("ioc", id, Absent, "malware", Some(9), tas, cs, {}) :
        id \in IocIds, tas \in {{}, ActorNames}, cs \in {{}, CampaignNames}}
ActorData ==
    {Data("threat_actor", id, name, Absent, None, {}, cs, {}) :
        id \in ActorIds, name \in ActorNames, cs \in {{}, CampaignNames}}
CampaignData ==
    {Data("campaign", id, name, Absent, conf, {}, {}, is) :
        id \in CampaignIds, name \in CampaignNames, conf \in {None, Some(15)},
        is \in {{}, {"ioc-1"}}}
\* a payload whose type names no entity kind, or that has no type
OtherData ==
    {Data(t, "ioc-1", Absent, "malware", Some(9), {}, {}, {}) : t \in {"domain", Absent}}

MessagesOf(D) == {[data |-> Some(d)] : d \in D}
NoData == {[data |-> None]}

TheStore == [iocs |-> iocs, campaigns |-> campaigns, actors |-> actors, rels |-> rels]

\* SET ioc.type = $type, ioc.category = $category, ioc.confidence = $confidence
IocFromData(d) ==
    [id |-> d.id, type |-> d.type,
     category |-> IF d.category = Absent THEN "unknown" ELSE d.category,
     confidence |-> OrElse(d.confidence, DefaultConfidence)]

\* A variant that creates a node on every upsert (CREATE in place of MERGE).
CreateIocAlways(s, d) == Append(s, IocFromData(d))

\* MERGE (ioc:IOC {id: $id}) SET ... : every node with the id is overwritten,
\* and one node is created when there is none.
MergeIoc(s, d) ==
    IF IocMatches(s, d.id) = {}
    THEN Append(s, IocFromData(d))
    ELSE [i \in 1..Len(s) |-> IF s[i].id = d.id THEN IocFromData(d) ELSE s[i]]

\* MERGE (ta:ThreatActor {id: $id}) SET ta.name = $name, ...
MergeActor(s, d) ==
    IF ActorById(s, d.id) = {}
    THEN Append(s, [id |-> d.id, name |-> d.name])
    ELSE [i \in 1..Len(s) |-> IF s[i].id = d.id THEN [s[i] EXCEPT !.name = d.name] ELSE s[i]]

\* MERGE (c:Campaign {id: $id}) SET c.name = $name, ... (confidence is not set)
MergeCampaign(s, d) ==
    IF CampaignById(s, d.id) = {}
    THEN Append(s, [id |-> d.id, name |-> d.name, confidence |-> None])
    ELSE [i \in 1..Len(s) |-> IF s[i].id = d.id THEN [s[i] EXCEPT !.name = d.name] ELSE s[i]]

\* The names of the campaigns (actors) of a list, as node references.
CampaignsNamed(s, names) == UNION {CampaignByName(s, n) : n \in names}
ActorsNamed(s, names) == UNION {ActorByName(s, n) : n \in names}
IocsWithIds(s, ids) == UNION {IocMatches(s, i) : i \in ids}

\* _process_ioc_data.  run: the statements reach the store (execute_write_query
\* returns rows); otherwise every statement returns [] and nothing is written.
\* A MERGE on a null id is refused by the backend.
ProcessIocData(st, d, run) ==
    IF run /\ d.id # Absent
    THEN LET n == MergeIoc(st.iocs, d)
             me == Refs("IOC", IocMatches(n, d.id))
             r1 == MergeRels(st.rels, "USED_BY", me,
                             Refs("ThreatActor", ActorsNamed(st.actors, d.threat_actors)))
             r2 == MergeRels(r1, "SEEN_IN", me,
                             Refs("Campaign", CampaignsNamed(st.campaigns, d.campaigns)))
         IN  [st EXCEPT !.iocs = n, !.rels = r2]
    ELSE st

\* _process_threat_actor_data
ProcessThreatActorData(st, d, run) ==
    IF run /\ d.id # Absent
    THEN LET n == MergeActor(st.actors, d)
             me == Refs("ThreatActor", ActorById(n, d.id))
         IN  [st EXCEPT !.actors = n,
                        !.rels = MergeRels(st.rels, "BELONGS_TO", me,
                                    Refs("Campaign", CampaignsNamed(st.campaigns, d.campaigns)))]
    ELSE st

\* _process_campaign_data
ProcessCampaignData(st, d, run) ==
    IF run /\ d.id # Absent
    THEN LET n == MergeCampaign(st.campaigns, d)
             me == Refs("Campaign", CampaignById(n, d.id))
         IN  [st EXCEPT !.campaigns = n,
                        !.rels = MergeRels(st.rels, "INVOLVES", me,
                                    Refs("IOC", IocsWithIds(st.iocs, d.iocs)))]
    ELSE st

\* message.get("data", {}).get("type", "unknown")
MessageType(m) == IF m.data = None THEN "unknown"
                  ELSE IF m.data[1].type = Absent THEN "unknown" ELSE m.data[1].type

\* A variant that hands every payload of another type to _process_ioc_data.
ProcessMessageUntyped(st, m, run) ==
    CASE MessageType(m) = "threat_actor" -> ProcessThreatActorData(st, m.data[1], run)
      [] MessageType(m) = "campaign" -> ProcessCampaignData(st, m.data[1], run)
      [] OTHER -> IF m.data = None THEN st ELSE ProcessIocData(st, m.data[1], run)

\* process_threat_intelligence: dispatch on the type of the payload
ProcessMessage(st, m, run) ==
    CASE MessageType(m) = "ioc" -> ProcessIocData(st, m.data[1], run)
      [] MessageType(m) = "threat_actor" -> ProcessThreatActorData(st, m.data[1], run)
      [] MessageType(m) = "campaign" -> ProcessCampaignData(st, m.data[1], run)
      [] OTHER -> st

\* The message led to a successful graph write of its entity.
GraphWritten(m, run) ==
    /\ MessageType(m) \in {"ioc", "threat_actor", "campaign"}
    /\ run
    /\ m.data[1].id # Absent

\* What the MERGE of an indicator message finds in the store: no node with
\* the id ("none"), nodes that already carry the values of the message
\* ("same"), or nodes with other values ("other").
Found(st, m) ==
    IF MessageType(m) # "ioc" \/ IocMatches(st.iocs, m.data[1].id) = {} THEN "none"
    ELSE IF \A i \in IocMatches(st.iocs, m.data[1].id) : st.iocs[i] = IocFromData(m.data[1])
         THEN "same" ELSE "other"

\* The kinds of node, named by their message type, whose nodes differ between
\* two stores.
ChangedKinds(a, b) ==
    (IF a.iocs # b.iocs THEN {"ioc"} ELSE {})
        \cup (IF a.actors # b.actors THEN {"threat_actor"} ELSE {})
        \cup (IF a.campaigns # b.campaigns THEN {"campaign"} ELSE {})

WithinBounds(st) ==
    /\ Len(st.iocs) <= MaxIocNodes
    /\ Len(st.campaigns) <= MaxCampaignNodes
    /\ Len(st.actors) <= MaxActorNodes

(***************************************************************************)
(* Entity models (pydantic): construction validates the fields.            *)
(***************************************************************************)
\* IOC(**node): type and category are enum members, confidence is in [0,1]
IocModelValid(n) ==
    /\ n.type \in IOCType
    /\ n.category \in IOCCategory
    /\ ConfidenceValid(n.confidence)

\* Campaign(**node): confidence is required and in [0,1]
CampaignModelValid(c) == c.confidence # None /\ ConfidenceValid(c.confidence[1])

IocInputs == [id : IocIds, type : {"domain"}, category : {"malware"}, confidence : ConfInputs]
CampaignInputs == [id : CampaignIds, name : CampaignNames, confidence : {Some(5), Some(15)}]

\* The unique-id constraint of the schema refuses a CREATE of a second node
\* with the same id.
CreateAllowed(matches) == ~idConstraint \/ matches = {}

(***************************************************************************)
(* IOCService.search_iocs                                                  *)
(***************************************************************************)
Params(asset_id, ioc_type, threat_actor, campaign, confidence_min, limit, offset) ==
    [asset_id |-> asset_id, ioc_type |-> ioc_type, threat_actor |-> threat_actor,
     campaign |-> campaign, confidence_min |-> confidence_min,
     limit |-> limit, offset |-> offset]

\* a relationship of one of the types between the two nodes, in either direction
Linked(st, types, a, b) ==
    \E t \in types : \/ BagIn([type |-> t, src |-> a, dst |-> b], st.rels)
                     \/ BagIn([type |-> t, src |-> b, dst |-> a], st.rels)

\* a relationship of the type from a to b
LinkedTo(st, t, a, b) == BagIn([type |-> t, src |-> a, dst |-> b], st.rels)

\* where_conditions joined by AND, for the IOC node i
WhereClause(st, p, i) ==
    /\ p.asset_id # None =>
          \E a \in AssetMatches(p.asset_id[1]) :
              Linked(st, {"EXPOSED_TO", "OBSERVED_ON"}, <<"Asset", a>>, <<"IOC", i>>)
    /\ p.ioc_type # None => st.iocs[i].type = p.ioc_type[1]
    /\ p.threat_actor # None =>
          \E t \in ActorByName(st.actors, p.threat_actor[1]) :
              LinkedTo(st, "USED_BY", <<"IOC", i>>, <<"ThreatActor", t>>)
    /\ p.campaign # None =>
          \E c \in CampaignByName(st.campaigns, p.campaign[1]) :
              LinkedTo(st, "INVOLVES", <<"IOC", i>>, <<"Campaign", c>>)
    /\ p.confidence_min # None => st.iocs[i].confidence >= p.confidence_min[1]

Matching(st, p) == {i \in 1..Len(st.iocs) : WhereClause(st, p, i)}

\* ORDER BY ioc.confidence DESC: every order of the rows that is descending in
\* confidence (the store fixes no order among equal confidences)
Orders(st, S) ==
    {f \in [1..Cardinality(S) -> S] :
        /\ \A a, b \in 1..Cardinality(S) : a # b => f[a] # f[b]
        /\ \A a, b \in 1..Cardinality(S) :
              a < b => st.iocs[f[a]].confidence >= st.iocs[f[b]].confidence}

Min(a, b) == IF a < b THEN a ELSE b

\* SKIP $offset LIMIT $limit
Page(ord, offset, limit) == SubSeq(ord, offset + 1, Min(offset + limit, Len(ord)))

\* A variant that appends the type before the asset pattern.
WhereConditionsTypeFirst(p) ==
    (IF p.ioc_type # None THEN <<"ioc.type = $ioc_type">> ELSE <<>>)
    \o (IF p.asset_id # None
        THEN <<"(a:Asset {id: $asset_id})-[:EXPOSED_TO|:OBSERVED_ON]-(ioc:IOC)">>
        ELSE <<"(ioc:IOC)">>)
    \o (IF p.threat_actor # None
        THEN <<"(ioc)-[:USED_BY]->(ta:ThreatActor {name: $threat_actor})">> ELSE <<>>)
    \o (IF p.campaign # None
        THEN <<"(ioc)-[:INVOLVES]->(c:Campaign {name: $campaign})">> ELSE <<>>)
    \o (IF p.confidence_min # None THEN <<"ioc.confidence >= $confidence_min">> ELSE <<>>)

\* where_conditions, in the order search_iocs appends them ("if x:" takes an
\* empty string as absent; the model's values are not empty)
WhereConditions(p) ==
    (IF p.asset_id # None
     THEN <<"(a:Asset {id: $asset_id})-[:EXPOSED_TO|:OBSERVED_ON]-(ioc:IOC)">>
     ELSE <<"(ioc:IOC)">>)
    \o (IF p.ioc_type # None THEN <<"ioc.type = $ioc_type">> ELSE <<>>)
    \o (IF p.threat_actor # None
        THEN <<"(ioc)-[:USED_BY]->(ta:ThreatActor {name: $threat_actor})">> ELSE <<>>)
    \o (IF p.campaign # None
        THEN <<"(ioc)-[:INVOLVES]->(c:Campaign {name: $campaign})">> ELSE <<>>)
    \o (IF p.confidence_min # None THEN <<"ioc.confidence >= $confidence_min">> ELSE <<>>)

\* " AND ".join(where_conditions), as a sequence of tokens
RECURSIVE JoinAnd(_)
JoinAnd(conds) ==
    IF Len(conds) <= 1 THEN conds
    ELSE <<Head(conds), "AND">> \o JoinAnd(Tail(conds))

\* the text of the page statement, as a sequence of tokens
Statement(p) ==
    <<"MATCH (ioc:IOC)", "WHERE">> \o JoinAnd(WhereConditions(p))
        \o <<"RETURN ioc", "ORDER BY ioc.confidence DESC", "SKIP $offset", "LIMIT $limit">>

\* the parameter map of the page statement
Parameters(p) ==
    {[name |-> "offset", value |-> p.offset], [name |-> "limit", value |-> p.limit]}
    \cup {[name |-> n, value |-> p[n][1]] :
            n \in {m \in {"asset_id", "ioc_type", "threat_actor", "campaign",
                          "confidence_min"} : p[m] # None}}

\* the caller's strings among the filter values
TextValues(p) ==
    {p[n][1] : n \in {m \in {"asset_id", "ioc_type", "threat_actor", "campaign"} :
                        p[m] # None}}

\* The responses search_iocs can return.  runPage, runCount: the page and the
\* count statement reach the store and run; otherwise execute_query returns []
\* for that statement.  A row that does not build an IOC raises, and the
\* handler answers with the empty response.  sent: the statements sent to the
\* store.
SearchResponses(st, p, runPage, runCount) ==
    LET total == IF runCount THEN Cardinality(Matching(st, p)) ELSE 0
        sentCount == IF runCount THEN 1 ELSE 0
    IN  IF ~runPage
        THEN {[iocs |-> <<>>, total_count |-> total, sent |-> sentCount]}
        ELSE {IF \A k \in 1..Len(Page(ord, p.offset, p.limit)) :
                     IocModelValid(st.iocs[Page(ord, p.offset, p.limit)[k]])
              THEN [iocs |-> Page(ord, p.offset, p.limit), total_count |-> total,
                    sent |-> 1 + sentCount]
              ELSE [iocs |-> <<>>, total_count |-> 0, sent |-> 1] :
                        ord \in Orders(st, Matching(st, p))}

\* GET /iocs/search reads the seven declared query parameters; unknown: the
\* other query fields of the request, which the route does not read
Request(p, unknown) == [params |-> p, unknown |-> unknown]

\* the page and the count statement both run
NoFailure == {<<TRUE, TRUE>>}

\* either statement may fail at the store (timeout, session lost)
AnyFailure == BOOLEAN \X BOOLEAN

\* the same search apart from the window
SameFilters(a, b) ==
    \A n \in {"asset_id", "ioc_type", "threat_actor", "campaign", "confidence_min", "limit"} :
        a[n] = b[n]

(***************************************************************************)
(* Initial state: a fresh process (no driver, nothing consumed) on a store  *)
(* with the asset nodes; the schema may or may not have been installed.    *)
(***************************************************************************)
IdleConsumer ==
    /\ log = <<>> /\ position = 0 /\ committed = 0 /\ running = FALSE
    /\ closed = FALSE /\ cpc = "idle" /\ inHand = None /\ written = {}

IdleThreads == tpc = <<>> /\ tdrv = <<>>

FreshConnection == driver = 0 /\ connected = FALSE /\ driversBuilt = 0

EmptyStore ==
    /\ iocs = <<>> /\ campaigns = <<>> /\ actors = <<>> /\ rels = EmptyBag

Init ==
    /\ FreshConnection
    /\ storeUp = TRUE
    /\ idConstraint \in BOOLEAN
    /\ EmptyStore
    /\ last = [op |-> "init"]
    /\ IdleConsumer
    /\ IdleThreads

SetStore(st) ==
    /\ iocs' = st.iocs
    /\ campaigns' = st.campaigns
    /\ actors' = st.actors
    /\ rels' = st.rels

(***************************************************************************)
(* Environment: the store goes down and comes back.                        *)
(***************************************************************************)
StoreDown ==
    /\ storeUp
    /\ storeUp' = FALSE
    /\ UNCHANGED <<driver, connected, driversBuilt, storeVars, last, consumerVars, threadVars>>

StoreBack ==
    /\ ~storeUp
    /\ storeUp' = TRUE
    /\ UNCHANGED <<driver, connected, driversBuilt, storeVars, last, consumerVars, threadVars>>

(***************************************************************************)
(* Neo4jConnection operations                                              *)
(***************************************************************************)
\* connect()
Connect ==
    /\ driversBuilt < MaxDrivers
    /\ LET c == ConnectResult(driversBuilt, storeUp)
       IN  /\ driver' = c.driver
           /\ connected' = c.connected
           /\ driversBuilt' = c.driversBuilt
           /\ last' = [op |-> "connect", out |-> c.connected]
    /\ UNCHANGED <<storeUp, storeVars, consumerVars, threadVars>>

\* health_check(): after a failed statement _connected keeps its value.
ConnectedAfterHealthCheck(conn, ok) == conn

HealthCheck ==
    /\ NeedsConnect(driver, connected) => driversBuilt < MaxDrivers
    /\ LET g == GetSessionResult(driver, connected, driversBuilt, storeUp)
       IN  /\ driver' = g.driver
           /\ connected' = ConnectedAfterHealthCheck(g.connected, storeUp)
           /\ driversBuilt' = g.driversBuilt
           /\ last' = [op |-> "health_check", out |-> storeUp,
                       wasConnected |-> connected, driverBefore |-> driver]
    /\ UNCHANGED <<storeUp, storeVars, consumerVars, threadVars>>

\* close()
Close ==
    /\ driver # 0
    /\ connected' = FALSE
    /\ last' = [op |-> "close"]
    /\ UNCHANGED <<driver, driversBuilt, storeUp, storeVars, consumerVars, threadVars>>

\* A variant that lets the errors of the session reach the caller.
ExecRaisesTyped(outcome) ==
    CASE outcome = "unreachable" -> "ConnectionError"
      [] outcome = "rejected" -> "QueryError"
      [] OTHER -> "none"

\* What execute_query / execute_write_query hand to the caller besides the
\* rows: they catch every exception and raise none.
ExecRaises(outcome) == "none"

\* The number of times the statement is sent: once, unless the client is not
\* connected.
ExecAttempts(outcome) == IF outcome = "not_connected" THEN 0 ELSE 1

\* execute_query(query, parameters) and execute_write_query(query, parameters)
\* with a statement MATCH (ioc:IOC {id: $id}) RETURN ioc; stmtOk: the backend
\* accepts the statement.
ExecuteQuery ==
    \E fn \in {"execute_query", "execute_write_query"}, id \in IocIds, stmtOk \in BOOLEAN :
        LET o == ExecOutcome(connected, storeUp, stmtOk)
        IN  /\ last' = [op |-> fn, conn |-> connected, up |-> storeUp, stmtOk |-> stmtOk,
                        driverBefore |-> driver, id |-> id,
                        rows |-> IF o = "ok" THEN IocMatches(iocs, id) ELSE {},
                        raised |-> ExecRaises(o), attempts |-> ExecAttempts(o)]
            /\ UNCHANGED <<connVars, storeVars, consumerVars, threadVars>>

(***************************************************************************)
(* IOCService and CampaignService operations                               *)
(***************************************************************************)
\* CREATE (ioc:IOC {...}) RETURN ioc
CreateIocNode(s, ioc) == Append(s, ioc)

\* The rows of CREATE (n {...}) RETURN n as execute_write_query hands them
\* back: the created node, or [] on every failure.
CreateRows(o, entity) == IF o = "ok" THEN <<entity>> ELSE <<>>

CreateResultAlways(rows) == "created"

\* if result: return Entity(**dict(result[0][...])) else: raise Exception(...)
CreateResult(rows) == IF rows # <<>> THEN "created" ELSE "raised"

\* POST /iocs: the body is validated into an IOC, then create_ioc(ioc).
\* rows: what the write returned; out: the entity of the row was returned
\* ("created") or the call raised.
CreateIoc ==
    \E ioc \in IocInputs :
        IF ~IocModelValid(ioc)
        THEN /\ last' = [op |-> "create_ioc", id |-> ioc.id, out |-> "validation_error"]
             /\ UNCHANGED <<connVars, storeVars, consumerVars, threadVars>>
        ELSE LET o == ExecOutcome(connected, storeUp, CreateAllowed(IocMatches(iocs, ioc.id)))
                 rows == CreateRows(o, ioc)
             IN  /\ o = "ok" => Len(iocs) < MaxIocNodes
                 /\ iocs' = IF o = "ok" THEN CreateIocNode(iocs, ioc) ELSE iocs
                 /\ last' = [op |-> "create_ioc", id |-> ioc.id,
                             out |-> CreateResult(rows), rows |-> rows,
                             conn |-> connected, up |-> storeUp]
                 /\ UNCHANGED <<connVars, idConstraint, campaigns, actors, rels,
                                consumerVars, threadVars>>

\* POST /campaigns: the body is validated into a Campaign, then create_campaign
CreateCampaign ==
    \E c \in CampaignInputs :
        IF ~CampaignModelValid(c)
        THEN /\ last' = [op |-> "create_campaign", id |-> c.id, out |-> "validation_error"]
             /\ UNCHANGED <<connVars, storeVars, consumerVars, threadVars>>
        ELSE LET o == ExecOutcome(connected, storeUp, CreateAllowed(CampaignById(campaigns, c.id)))
                 rows == CreateRows(o, c)
             IN  /\ o = "ok" => Len(campaigns) < MaxCampaignNodes
                 /\ campaigns' = IF o = "ok" THEN Append(campaigns, c) ELSE campaigns
                 /\ last' = [op |-> "create_campaign", id |-> c.id,
                             out |-> CreateResult(rows), rows |-> rows,
                             conn |-> connected, up |-> storeUp]
                 /\ UNCHANGED <<connVars, idConstraint, iocs, actors, rels,
                                consumerVars, threadVars>>

\* POST /threat-actors: create_threat_actor(threat_actor), CREATE (ta:ThreatActor {...})
ActorInputs == [id : ActorIds, name : ActorNames]

CreateThreatActor ==
    \E ta \in ActorInputs :
        LET o == ExecOutcome(connected, storeUp, CreateAllowed(ActorById(actors, ta.id)))
            rows == CreateRows(o, ta)
        IN  /\ o = "ok" => Len(actors) < MaxActorNodes
            /\ actors' = IF o = "ok" THEN Append(actors, ta) ELSE actors
            /\ last' = [op |-> "create_threat_actor", id |-> ta.id,
                        out |-> CreateResult(rows), rows |-> rows,
                        conn |-> connected, up |-> storeUp]
            /\ UNCHANGED <<connVars, idConstraint, iocs, campaigns, rels,
                           consumerVars, threadVars>>

\* MATCH (ioc:IOC {id: $ioc_id}) MATCH (a:Asset {id: $asset_id})
\* CREATE (a)-[:EXPOSED_TO]->(ioc) RETURN ioc, a
CorrelateRels(rs, iocNodes, assetNodes) ==
    CreateRels(rs, "EXPOSED_TO", Refs("Asset", assetNodes), Refs("IOC", iocNodes))

\* The route POST /iocs/{ioc_id}/correlate/{asset_id}: 200 on success; on
\* failure HTTPException(400) is raised inside the try block, caught by its
\* except Exception and raised again as HTTPException(500).
CorrelateStatus(success) == IF success THEN 200 ELSE 500

\* correlate_ioc_with_asset(ioc_id, asset_id): True when the statement returned
\* rows, False otherwise (nothing is raised).  found: both nodes exist;
\* added: the relationships the call created.
CorrelateIocWithAsset ==
    \E ioc_id \in IocIds, asset_id \in AssetIds :
        LET is == IF Runs THEN IocMatches(iocs, ioc_id) ELSE {}
            as == IF Runs THEN AssetMatches(asset_id) ELSE {}
            rs == CorrelateRels(rels, is, as)
            success == is # {} /\ as # {}
        IN  /\ BagCardinality(rs) <= MaxRels
            /\ rels' = rs
            /\ last' = [op |-> "correlate_ioc_with_asset", ioc_id |-> ioc_id,
                        asset_id |-> asset_id, out |-> success,
                        conn |-> connected, up |-> storeUp,
                        found |-> (IocMatches(iocs, ioc_id) # {} /\ AssetMatches(asset_id) # {}),
                        raised |-> "none", status |-> CorrelateStatus(success),
                        added |-> BagCardinality(rs) - BagCardinality(rels)]
            /\ UNCHANGED <<connVars, idConstraint, iocs, campaigns, actors,
                           consumerVars, threadVars>>

\* GET /iocs/search and search_iocs(search_params), for the requests of Q with
\* the statement outcomes of F.  paging, seen: the call continues a walk
\* through the pages from offset 0 on which every statement ran, and the rows
\* of the pages so far.
SearchIocs(Q, F) ==
    \E q \in Q, f \in F :
        LET p == q.params
            ran == Runs /\ f[1] /\ f[2]
            continues == /\ last.op = "search_iocs"
                         /\ last.paging
                         /\ SameFilters(last.params, p)
                         /\ p.offset = last.params.offset + last.params.limit
        IN  \E resp \in SearchResponses(TheStore, p, Runs /\ f[1], Runs /\ f[2]) :
                /\ last' = [op |-> "search_iocs", params |-> p, unknown |-> q.unknown,
                            conn |-> connected, up |-> storeUp, ok |-> f,
                            iocs |-> resp.iocs, total_count |-> resp.total_count,
                            raised |-> "none", sent |-> resp.sent,
                            text |-> Statement(p), bound |-> Parameters(p),
                            values |-> TextValues(p),
                            paging |-> ran /\ (p.offset = 0 \/ continues),
                            seen |-> IF ~ran THEN <<>>
                                     ELSE IF p.offset = 0 THEN resp.iocs
                                     ELSE IF continues THEN last.seen \o resp.iocs
                                     ELSE <<>>]
                /\ UNCHANGED <<connVars, storeVars, consumerVars, threadVars>>

(***************************************************************************)
(* The stream processor handles one message of M (the handler of the       *)
(* threat-intelligence topic, called with the value of a record).          *)
(***************************************************************************)
ProcessThreatIntelligence(M) ==
    \E m \in M :
        LET st == ProcessMessage(TheStore, m, Runs)
        IN  /\ WithinBounds(st)
            /\ SetStore(st)
            /\ last' = [op |-> "process_threat_intelligence", msg |-> m,
                        stored |-> GraphWritten(m, Runs), found |-> Found(TheStore, m),
                        changed |-> ChangedKinds(TheStore, st),
                        relsChanged |-> (st.rels # rels)]
            /\ UNCHANGED <<connVars, idConstraint, consumerVars, threadVars>>

(***************************************************************************)
(* Spec: the API process.  /health connects the client; indicators are     *)
(* created, correlated with assets and searched, and the stream processor  *)
(* upserts indicators.                                                     *)
(***************************************************************************)
ApiSearchParams ==
    {Params(a, None, None, None, Some(cm), lim, off) :
        a \in {None, Some("asset-1")}, cm \in {0, 7}, lim \in {1, 2}, off \in {0, 2}}

ApiSearchRequests == {Request(p, {}) : p \in ApiSearchParams}

ApiStreamMessages ==
    MessagesOf({d \in IocData : d.id # Absent /\ d.category = Absent /\ d.confidence # Some(9)})

Next ==
    \/ StoreDown
    \/ StoreBack
    \/ HealthCheck
    \/ CreateIoc
    \/ CorrelateIocWithAsset
    \/ SearchIocs(ApiSearchRequests, NoFailure)
    \/ ProcessThreatIntelligence(ApiStreamMessages)

Spec == Init /\ [][Next]_vars

(***************************************************************************)
(* SpecWrites: every write path to IOC and Campaign nodes, from the API    *)
(* (create_ioc, create_campaign) and from the stream.                      *)
(***************************************************************************)
WriteMessages ==
    NoData \cup MessagesOf({d \in IocData : d.category = Absent})
           \cup MessagesOf({d \in CampaignData : d.iocs = {}})

NextWrites ==
    \/ StoreDown
    \/ StoreBack
    \/ HealthCheck
    \/ CreateIoc
    \/ CreateCampaign
    \/ ProcessThreatIntelligence(WriteMessages)

SpecWrites == Init /\ [][NextWrites]_vars

(***************************************************************************)
(* SpecStream: the stream processor alone, on a store that starts empty.   *)
(***************************************************************************)
StreamMessages == NoData \cup MessagesOf(IocData \cup OtherData)

NextStream ==
    \/ StoreDown
    \/ StoreBack
    \/ HealthCheck
    \/ ProcessThreatIntelligence(StreamMessages)

SpecStream == Init /\ [][NextStream]_vars

(***************************************************************************)
(* SpecConn: the connection manager and the two execute functions, on a    *)
(* store that holds one indicator.                                         *)
(***************************************************************************)
InitConn ==
    /\ FreshConnection
    /\ storeUp = TRUE
    /\ idConstraint = FALSE
    /\ iocs = <<[id |-> "ioc-1", type |-> "domain", category |-> "malware", confidence |-> 9]>>
    /\ campaigns = <<>> /\ actors = <<>> /\ rels = EmptyBag
    /\ last = [op |-> "init"]
    /\ IdleConsumer
    /\ IdleThreads

NextConn ==
    \/ StoreDown
    \/ StoreBack
    \/ Connect
    \/ HealthCheck
    \/ Close
    \/ ExecuteQuery

SpecConn == InitConn /\ [][NextConn]_vars

(***************************************************************************)
(* SpecConsumer: ThreatIntelligenceConsumer on one partition.  The         *)
(* consumer is built with enable_auto_commit=True: the client commits its  *)
(* position (the offset after the last record the iterator yielded) from   *)
(* inside the poll of the iterator, and again when it is closed.           *)
(***************************************************************************)
ConsumerMessages ==
    MessagesOf({d \in IocData : d.id # Absent /\ d.category = Absent /\ d.confidence = None})

\* a producer publishes a record
Produce ==
    /\ Len(log) < MaxLog
    /\ \E m \in ConsumerMessages : log' = Append(log, m)
    /\ UNCHANGED <<connVars, storeVars, last, position, committed, running, closed,
                   cpc, inHand, written, threadVars>>

LoopExitPropagates(reason) == IF reason = "error" THEN "raised" ELSE "finally"

\* How the loop of start_consuming is left: the iterator of a closed consumer
\* ends ("closed"), the iterator raises and one of the except branches logs
\* the exception ("error"), or running is False ("break"); every path goes on
\* to the finally block.
LoopExit(reason) == "finally"

\* start_consuming(), up to the loop
StartConsuming ==
    /\ cpc = "idle"
    /\ running' = TRUE
    /\ cpc' = "next"
    /\ UNCHANGED <<connVars, storeVars, last, log, position, committed, closed,
                   inHand, written, threadVars>>

\* for message in self.consumer: the iterator yields the next record, or ends
\* when the consumer was closed
NextRecord ==
    /\ cpc = "next"
    /\ IF closed
       THEN /\ cpc' = LoopExit("closed")
            /\ UNCHANGED <<position, inHand>>
       ELSE /\ position < Len(log)
            /\ position' = position + 1
            /\ inHand' = Some(position + 1)
            /\ cpc' = "check"
    /\ UNCHANGED <<connVars, storeVars, last, log, committed, running, closed,
                   written, threadVars>>

\* the iterator raises (KafkaError or another exception): the loop is left
IterationError ==
    /\ cpc = "next"
    /\ ~closed
    /\ cpc' = LoopExit("error")
    /\ last' = [op |-> "start_consuming", event |-> "iteration_error"]
    /\ UNCHANGED <<connVars, storeVars, log, position, committed, running,
                   closed, inHand, written, threadVars>>

\* enable_auto_commit: the poll inside the iterator commits the position
AutoCommit ==
    /\ cpc = "next"
    /\ ~closed
    /\ committed < position
    /\ committed' = position
    /\ UNCHANGED <<connVars, storeVars, last, log, position, running, closed, cpc,
                   inHand, written, threadVars>>

\* if not self.running: break
CheckRunning ==
    /\ cpc = "check"
    /\ IF running
       THEN cpc' = "handle" /\ UNCHANGED inHand
       ELSE cpc' = LoopExit("break") /\ inHand' = None
    /\ UNCHANGED <<connVars, storeVars, last, log, position, committed, running,
                   closed, written, threadVars>>

HandlerRaisedOnFailure(run) == IF run THEN "none" ELSE "Neo4jError"

\* What the handler of the topic raises.  run: its statements reach the
\* store.  A failed statement is turned into [] by execute_write_query, an
\* exception inside _process_ioc_data (and the two other _process_* methods)
\* is logged by its except branch, and so is one inside
\* process_threat_intelligence.
HandlerRaised(run) == "none"

\* _process_message: except Exception logs whatever the handler raised; the
\* loop of start_consuming goes on with the next record.
AfterProcessMessage(raised) == "next"

\* await self._process_message(message): the handler of the topic upserts the
\* entity; every exception is caught and logged.  before: whether the
\* statements of the record handled just before this one reached the store.
HandleRecord ==
    /\ cpc = "handle"
    /\ LET k == inHand[1]
           st == ProcessMessage(TheStore, log[k], Runs)
       IN  /\ SetStore(st)
           /\ written' = IF GraphWritten(log[k], Runs) THEN written \cup {k} ELSE written
           /\ last' = [op |-> "_process_message", offset |-> k, run |-> Runs,
                       raised |-> HandlerRaised(Runs),
                       next |-> AfterProcessMessage(HandlerRaised(Runs)),
                       before |-> IF last.op = "_process_message"
                                  THEN Some(last.run) ELSE None]
           /\ cpc' = AfterProcessMessage(HandlerRaised(Runs))
    /\ inHand' = None
    /\ UNCHANGED <<connVars, idConstraint, log, position, committed, running,
                   closed, threadVars>>

\* consumer.close(): with auto commit the position is committed
CommittedOnClose(isClosed, pos, com) == IF isClosed THEN com ELSE pos

\* stop_consuming() / close(), called while the loop runs
StopConsuming ==
    /\ running
    /\ cpc \in {"next", "check", "handle"}
    /\ running' = FALSE
    /\ committed' = CommittedOnClose(closed, position, committed)
    /\ closed' = TRUE
    /\ UNCHANGED <<connVars, storeVars, last, log, position, cpc, inHand, written,
                   threadVars>>

\* finally: self.stop_consuming()
FinallyStop ==
    /\ cpc = "finally"
    /\ running' = FALSE
    /\ committed' = CommittedOnClose(closed, position, committed)
    /\ closed' = TRUE
    /\ cpc' = "done"
    /\ UNCHANGED <<connVars, storeVars, last, log, position, inHand, written,
                   threadVars>>

\* start_processing(): a new consumer of the group resumes at the committed
\* offset
Restart ==
    /\ cpc = "done"
    /\ position' = committed
    /\ closed' = FALSE
    /\ cpc' = "idle"
    /\ UNCHANGED <<connVars, storeVars, last, log, committed, running, inHand,
                   written, threadVars>>

NextConsumer ==
    \/ StoreDown
    \/ StoreBack
    \/ HealthCheck
    \/ Produce
    \/ StartConsuming
    \/ NextRecord
    \/ IterationError
    \/ AutoCommit
    \/ CheckRunning
    \/ HandleRecord
    \/ StopConsuming
    \/ FinallyStop
    \/ Restart

SpecConsumer == Init /\ [][NextConsumer]_vars

(***************************************************************************)
(* SpecConc: several callers inside get_session() of the one global        *)
(* Neo4jConnection, interleaved statement by statement.  The store stays   *)
(* reachable.                                                              *)
(***************************************************************************)
Callers == 1..NCallers

InitConc ==
    /\ FreshConnection
    /\ storeUp = TRUE
    /\ idConstraint = FALSE
    /\ EmptyStore
    /\ last = [op |-> "init"]
    /\ IdleConsumer
    /\ tpc = [t \in Callers |-> "idle"]
    /\ tdrv = [t \in Callers |-> 0]

Goto(t, pc) == tpc' = [tpc EXCEPT ![t] = pc]

\* a caller enters get_session()
CallGetSession(t) ==
    /\ tpc[t] = "idle"
    /\ Goto(t, "check")
    /\ UNCHANGED <<connVars, storeVars, last, consumerVars, tdrv>>

\* if not self.driver or not self._connected: self.connect()
CheckConnected(t) ==
    /\ tpc[t] = "check"
    /\ Goto(t, IF NeedsConnect(driver, connected) THEN "build" ELSE "session")
    /\ UNCHANGED <<connVars, storeVars, last, consumerVars, tdrv>>

\* self.driver = GraphDatabase.driver(...)
BuildDriver(t) ==
    /\ tpc[t] = "build"
    /\ driversBuilt < MaxDrivers
    /\ driver' = driversBuilt + 1
    /\ driversBuilt' = driversBuilt + 1
    /\ Goto(t, "test")
    /\ UNCHANGED <<connected, storeUp, storeVars, last, consumerVars, tdrv>>

\* with self.driver.session(...) as session: session.run("RETURN 1")
TestDriver(t) ==
    /\ tpc[t] = "test"
    /\ IF storeUp
       THEN Goto(t, "mark") /\ UNCHANGED connected
       ELSE Goto(t, "session") /\ connected' = FALSE
    /\ UNCHANGED <<driver, driversBuilt, storeUp, storeVars, last, consumerVars, tdrv>>

\* self._connected = True
MarkConnected(t) ==
    /\ tpc[t] = "mark"
    /\ connected' = TRUE
    /\ Goto(t, "session")
    /\ UNCHANGED <<driver, driversBuilt, storeUp, storeVars, last, consumerVars, tdrv>>

\* return self.driver.session(...): the caller now works on that driver
OpenSession(t) ==
    /\ tpc[t] = "session"
    /\ tdrv' = [tdrv EXCEPT ![t] = driver]
    /\ Goto(t, "using")
    /\ UNCHANGED <<connVars, storeVars, last, consumerVars>>

\* the caller is done with its session
ReleaseSession(t) ==
    /\ tpc[t] = "using"
    /\ tdrv' = [tdrv EXCEPT ![t] = 0]
    /\ Goto(t, "idle")
    /\ UNCHANGED <<connVars, storeVars, last, consumerVars>>

NextConc ==
    \E t \in Callers :
        \/ CallGetSession(t)
        \/ CheckConnected(t)
        \/ BuildDriver(t)
        \/ TestDriver(t)
        \/ MarkConnected(t)
        \/ OpenSession(t)
        \/ ReleaseSession(t)

SpecConc == InitConc /\ [][NextConc]_vars

(***************************************************************************)
(* IOCService._calculate_threat_level(ioc_count, max_confidence).  The     *)
(* confidence of this function is kept in hundredths (0.85 is 85).         *)
(***************************************************************************)
LevelCounts == 0..MaxCount
LevelConfidences == {5 * k : k \in 0..20}

\* A variant whose thresholds are strict.
CalculateThreatLevelStrict(ioc_count, max_confidence) ==
    IF ioc_count = 0 THEN "unknown"
    ELSE IF ioc_count > 10 /\ max_confidence > 80 THEN "critical"
    ELSE IF ioc_count > 5 /\ max_confidence > 60 THEN "high"
    ELSE IF ioc_count > 2 /\ max_confidence > 40 THEN "medium"
    ELSE "low"

\* A variant that answers the second and third branch the other way round.
CalculateThreatLevelSwapped(ioc_count, max_confidence) ==
    IF ioc_count = 0 THEN "unknown"
    ELSE IF ioc_count >= 10 /\ max_confidence >= 80 THEN "critical"
    ELSE IF ioc_count >= 5 /\ max_confidence >= 60 THEN "medium"
    ELSE IF ioc_count >= 2 /\ max_confidence >= 40 THEN "high"
    ELSE "low"

CalculateThreatLevel(ioc_count, max_confidence) ==
    IF ioc_count = 0 THEN "unknown"
    ELSE IF ioc_count >= 10 /\ max_confidence >= 80 THEN "critical"
    ELSE IF ioc_count >= 5 /\ max_confidence >= 60 THEN "high"
    ELSE IF ioc_count >= 2 /\ max_confidence >= 40 THEN "medium"
    ELSE "low"

\* a call of the function
CallCalculateThreatLevel ==
    \E n \in LevelCounts, c \in LevelConfidences :
        /\ last' = [op |-> "_calculate_threat_level", ioc_count |-> n,
                    max_confidence |-> c, out |-> CalculateThreatLevel(n, c)]
        /\ UNCHANGED <<connVars, storeVars, consumerVars, threadVars>>

NextLevel == CallCalculateThreatLevel

SpecLevel == Init /\ [][NextLevel]_vars

(***************************************************************************)
(* SpecSearch: GET /iocs/search over indicators created through the API,   *)
(* correlated with assets and attached to campaigns by the stream; either  *)
(* statement of a search may fail at the store.                            *)
(***************************************************************************)
SearchParams ==
    {Params(a, t, None, c, Some(cm), 1, off) :
        a \in {None, Some("asset-1")}, t \in {None, Some("domain")},
        c \in {None, Some("OpA")}, cm \in {0, 10}, off \in {0, 1}}

SearchRequests ==
    {Request(p, {}) : p \in SearchParams}
        \cup {Request(Params(None, None, None, None, Some(0), 1, 0), {"severity"})}

SearchMessages == MessagesOf({d \in CampaignData : d.confidence = None /\ d.iocs # {}})

NextSearch ==
    \/ HealthCheck
    \/ CreateIoc
    \/ CorrelateIocWithAsset
    \/ ProcessThreatIntelligence(SearchMessages)
    \/ SearchIocs(SearchRequests, AnyFailure)

SpecSearch == Init /\ [][NextSearch]_vars

(***************************************************************************)
(* IOCService.get_graph_export(node_types, relationship_types).  A         *)
(* statement text is a sequence of tokens; a value the code formats into   *)
(* the text is a token of its own.                                         *)
(***************************************************************************)
\* " OR ".join(parts), each part a sequence of tokens
RECURSIVE JoinOr(_)
JoinOr(parts) ==
    IF parts = <<>> THEN <<>>
    ELSE IF Len(parts) = 1 THEN Head(parts)
    ELSE Head(parts) \o <<" OR ">> \o JoinOr(Tail(parts))

\* node_query
NodeQuery(node_types) ==
    <<"MATCH (n)">>
    \o (IF node_types # None /\ node_types[1] # <<>>
        THEN <<" WHERE ">>
             \o JoinOr([k \in 1..Len(node_types[1]) |-> <<"n:", node_types[1][k]>>])
        ELSE <<>>)
    \o <<" RETURN n">>

\* rel_query
RelQuery(relationship_types) ==
    <<"MATCH (a)-[r]->(b)">>
    \o (IF relationship_types # None /\ relationship_types[1] # <<>>
        THEN <<" WHERE ">>
             \o JoinOr([k \in 1..Len(relationship_types[1]) |->
                            <<"type(r) = '", relationship_types[1][k], "'">>])
        ELSE <<>>)
    \o <<" RETURN a, r, b">>

AllNodes(st) ==
    Refs("IOC", 1..Len(st.iocs)) \cup Refs("Campaign", 1..Len(st.campaigns))
        \cup Refs("ThreatActor", 1..Len(st.actors)) \cup Refs("Asset", 1..Len(AssetNodes))

\* A node_types value that is more than a label: formatted into node_query it
\* gives MATCH (n) WHERE n:IOC RETURN n.id AS x // RETURN n, the statement
\* that returns the IOC nodes in a column x; the comment hides the rest.
RenamedColumn == "IOC RETURN n.id AS x //"

LabelOf(node_type) == IF node_type = RenamedColumn THEN "IOC" ELSE node_type

\* the column of the rows of node_query
NodeColumn(node_types) ==
    IF node_types # None /\ RenamedColumn \in Range(node_types[1]) THEN "x" ELSE "n"

\* the rows of node_query: the nodes with one of the labels, all without a list
ExportNodes(st, node_types) ==
    IF node_types = None \/ node_types[1] = <<>> THEN AllNodes(st)
    ELSE {n \in AllNodes(st) : n[1] \in {LabelOf(t) : t \in Range(node_types[1])}}

\* the rows of rel_query: the relationships of one of the types, with their
\* multiplicity
ExportRels(st, relationship_types) ==
    LET keep == IF relationship_types = None \/ relationship_types[1] = <<>>
                THEN BagToSet(st.rels)
                ELSE {r \in BagToSet(st.rels) : r.type \in Range(relationship_types[1])}
    IN  [r \in keep |-> CopiesIn(r, st.rels)]

NodeTypeInputs ==
    {None, Some(<<"IOC">>), Some(<<"Asset">>), Some(<<"IOC", "Asset">>), Some(<<RenamedColumn>>)}
RelTypeInputs == {None, Some(<<"EXPOSED_TO">>), Some(<<"INVOLVES">>)}

\* The result of get_graph_export.  dict(record["n"]) raises KeyError on a
\* row without a column n; the except branch returns a dictionary with the
\* keys nodes, relationships and error only.  keys: the keys of the result.
ExportResult(nodeRows, column, relRows) ==
    IF nodeRows # {} /\ column # "n"
    THEN [nodes |-> {}, relationships |-> EmptyBag, node_count |-> None,
          relationship_count |-> None, keys |-> {"nodes", "relationships", "error"}]
    ELSE [nodes |-> nodeRows, relationships |-> relRows,
          node_count |-> Some(Cardinality(nodeRows)),
          relationship_count |-> Some(BagCardinality(relRows)),
          keys |-> {"nodes", "relationships", "node_count", "relationship_count",
                    "export_timestamp"}]

\* GET /graph/export and get_graph_export: both statements go through
\* execute_query, which returns [] when the statement does not run
GetGraphExport ==
    \E nt \in NodeTypeInputs, rt \in RelTypeInputs :
        LET nodes == IF Runs THEN ExportNodes(TheStore, nt) ELSE {}
            rs == IF Runs THEN ExportRels(TheStore, rt) ELSE EmptyBag
            res == ExportResult(nodes, NodeColumn(nt), rs)
        IN  /\ last' = [op |-> "get_graph_export", node_types |-> nt,
                        relationship_types |-> rt, conn |-> connected, up |-> storeUp,
                        text |-> NodeQuery(nt) \o RelQuery(rt),
                        values |-> Range(OrElse(nt, <<>>)) \cup Range(OrElse(rt, <<>>)),
                        nodes |-> res.nodes, relationships |-> res.relationships,
                        node_count |-> res.node_count,
                        relationship_count |-> res.relationship_count,
                        keys |-> res.keys]
            /\ UNCHANGED <<connVars, storeVars, consumerVars, threadVars>>

(***************************************************************************)
(* The statements of CampaignService.search_campaigns and                  *)
(* ThreatService.search_threat_actors, as far as the code builds them from *)
(* the request: the where conditions in the order of the appends, and the  *)
(* text handed to execute_query.                                           *)
(***************************************************************************)
CampaignFilters(name, status, threat_actor, target_industry, start_date_from, start_date_to) ==
    [name |-> name, status |-> status, threat_actor |-> threat_actor,
     target_industry |-> target_industry, start_date_from |-> start_date_from,
     start_date_to |-> start_date_to]

CampaignWhereConditions(p) ==
    <<"(c:Campaign)">>
    \o (IF p.name # None THEN <<"c.name CONTAINS $name">> ELSE <<>>)
    \o (IF p.status # None THEN <<"c.status = $status">> ELSE <<>>)
    \o (IF p.threat_actor # None
        THEN <<"(c)<-[:BELONGS_TO]-(ta:ThreatActor {name: $threat_actor})">> ELSE <<>>)
    \o (IF p.target_industry # None THEN <<"$target_industry IN c.target_industries">> ELSE <<>>)
    \o (IF p.start_date_from # None THEN <<"c.start_date >= $start_date_from">> ELSE <<>>)
    \o (IF p.start_date_to # None THEN <<"c.start_date <= $start_date_to">> ELSE <<>>)

CampaignStatement(p) ==
    <<"MATCH">> \o JoinAnd(CampaignWhereConditions(p))
        \o <<"RETURN c", "ORDER BY c.start_date DESC", "SKIP $offset", "LIMIT $limit">>

ActorFilters(name, country, motivation, status, campaign) ==
    [name |-> name, country |-> country, motivation |-> motivation, status |-> status,
     campaign |-> campaign]

ActorWhereConditions(p) ==
    <<"(ta:ThreatActor)">>
    \o (IF p.name # None THEN <<"(ta.name CONTAINS $name OR $name IN ta.aliases)">> ELSE <<>>)
    \o (IF p.country # None THEN <<"ta.country = $country">> ELSE <<>>)
    \o (IF p.motivation # None THEN <<"ta.motivation = $motivation">> ELSE <<>>)
    \o (IF p.status # None THEN <<"ta.status = $status">> ELSE <<>>)
    \o (IF p.campaign # None
        THEN <<"(ta)-[:BELONGS_TO]->(c:Campaign {name: $campaign})">> ELSE <<>>)

ActorStatement(p) ==
    <<"MATCH">> \o JoinAnd(ActorWhereConditions(p))
        \o <<"RETURN ta", "ORDER BY ta.name", "SKIP $offset", "LIMIT $limit">>

\* the values of the filters that are present
FilterValues(p) == {p[n][1] : n \in {m \in DOMAIN p : p[m] # None}}

CampaignFilterInputs ==
    {CampaignFilters(n, s, ta, ti, f, t) :
        n \in {None, Some("OpA"), Some("Op")}, s \in {None, Some("active")},
        ta \in {None, Some("APT29")}, ti \in {None, Some("finance")},
        f \in {None, Some("2024-01-01T00:00:00")}, t \in {None, Some("2024-12-31T00:00:00")}}

ActorFilterInputs ==
    {ActorFilters(n, co, m, s, c) :
        n \in {None, Some("APT29"), Some("APT")}, co \in {None, Some("RU")},
        m \in {None, Some("espionage")}, s \in {None, Some("active")},
        c \in {None, Some("OpA")}}

\* search_campaigns, up to the statement it hands to execute_query
BuildCampaignSearch ==
    \E p \in CampaignFilterInputs :
        /\ last' = [op |-> "search_campaigns", params |-> p,
                    text |-> CampaignStatement(p), values |-> FilterValues(p)]
        /\ UNCHANGED <<connVars, storeVars, consumerVars, threadVars>>

\* search_threat_actors, up to the statement it hands to execute_query
BuildThreatActorSearch ==
    \E p \in ActorFilterInputs :
        /\ last' = [op |-> "search_threat_actors", params |-> p,
                    text |-> ActorStatement(p), values |-> FilterValues(p)]
        /\ UNCHANGED <<connVars, storeVars, consumerVars, threadVars>>

(***************************************************************************)
(* SpecText: the operations that build a statement from the caller's       *)
(* input, for every combination of present search filters.                 *)
(***************************************************************************)
TextParams ==
    {Params(a, t, ta, c, cm, 1, 0) :
        a \in {None, Some("asset-1"), Some("asset-9")}, t \in {None, Some("domain")},
        ta \in {None, Some("APT29")}, c \in {None, Some("OpA")}, cm \in {None, Some(0)}}

TextRequests == {Request(p, {}) : p \in TextParams}

NextText ==
    \/ HealthCheck
    \/ CreateIoc
    \/ SearchIocs(TextRequests, NoFailure)
    \/ BuildCampaignSearch
    \/ BuildThreatActorSearch
    \/ GetGraphExport

SpecText == Init /\ [][NextText]_vars

(***************************************************************************)
(* SpecCreate: the three create operations of the services, on a store     *)
(* that goes down and comes back.                                          *)
(***************************************************************************)
NextCreate ==
    \/ StoreDown
    \/ StoreBack
    \/ HealthCheck
    \/ CreateIoc
    \/ CreateCampaign
    \/ CreateThreatActor

SpecCreate == Init /\ [][NextCreate]_vars

(***************************************************************************)
(* IOCService.get_asset_threat_context                                     *)
(***************************************************************************)
\* MATCH (a:Asset {id: $asset_id}) MATCH (a)-[:EXPOSED_TO|:OBSERVED_ON]-(ioc:IOC)
ExposedIocs(st, asset_id) ==
    {i \in 1..Len(st.iocs) :
        \E a \in AssetMatches(asset_id) :
            Linked(st, {"EXPOSED_TO", "OBSERVED_ON"}, <<"Asset", a>>, <<"IOC", i>>)}

\* OPTIONAL MATCH: the matched nodes, or one null (0) when there is none
OptionalMatch(S) == IF S = {} THEN {0} ELSE S

\* RETURN DISTINCT ioc, ta, c, m, ttp: one row for every combination of an
\* exposed indicator with its threat actors and its campaigns (the model's
\* store holds no Malware and no TTP node: m and ttp are null in every row)
ContextRows(st, asset_id) ==
    UNION {{[ioc |-> i, ta |-> t, c |-> c] :
               t \in OptionalMatch({t \in 1..Len(st.actors) :
                        LinkedTo(st, "USED_BY", <<"IOC", i>>, <<"ThreatActor", t>>)}),
               c \in OptionalMatch({c \in 1..Len(st.campaigns) :
                        LinkedTo(st, "INVOLVES", <<"IOC", i>>, <<"Campaign", c>>)})} :
           i \in ExposedIocs(st, asset_id)}

\* AssetThreatContext(asset_id, threat_level="unknown", confidence=0.0)
UnknownContext ==
    [threat_level |-> "unknown", iocs |-> EmptyBag, threat_actors |-> {}, confidence |-> 0]

\* for record in results: iocs.append(IOC(**ioc_data)); threat_actors.add(...);
\* then _calculate_threat_level(len(iocs), max_confidence).  iocs: the list as
\* a bag of IOC nodes.  An IOC(**ioc_data) that fails ends in the except
\* branch, which returns the unknown context.
ContextOf(st, rows) ==
    IF rows = {} \/ \E r \in rows : ~IocModelValid(st.iocs[r.ioc]) THEN UnknownContext
    ELSE LET maxc == CHOOSE m \in {st.iocs[r.ioc].confidence : r \in rows} :
                         \A r \in rows : st.iocs[r.ioc].confidence <= m
         IN  [threat_level |-> CalculateThreatLevel(Cardinality(rows), 10 * maxc),
              iocs |-> [i \in {r.ioc : r \in rows} |-> Cardinality({r \in rows : r.ioc = i})],
              threat_actors |-> {st.actors[r.ta].name : r \in {x \in rows : x.ta # 0}},
              confidence |-> maxc]

\* GET /iocs/asset/{asset_id}: get_asset_threat_context(asset_id)
GetAssetThreatContext ==
    \E asset_id \in AssetIds :
        LET rows == IF Runs THEN ContextRows(TheStore, asset_id) ELSE {}
            ctx == ContextOf(TheStore, rows)
        IN  /\ last' = [op |-> "get_asset_threat_context", asset_id |-> asset_id,
                        conn |-> connected, up |-> storeUp, rows |-> Cardinality(rows),
                        iocs |-> ctx.iocs, ioc_count |-> BagCardinality(ctx.iocs),
                        threat_level |-> ctx.threat_level,
                        threat_actors |-> ctx.threat_actors, confidence |-> ctx.confidence]
            /\ UNCHANGED <<connVars, storeVars, consumerVars, threadVars>>

(***************************************************************************)
(* SpecContext: the threat context of an asset, read from a graph that     *)
(* already holds two indicators and two threat actors, with any set of     *)
(* USED_BY and EXPOSED_TO relationships between them and the asset.        *)
(***************************************************************************)
ContextIocNodes ==
    <<[id |-> "ioc-1", type |-> "domain", category |-> "malware", confidence |-> 9],
      [id |-> "ioc-2", type |-> "ip_address", category |-> "suspicious", confidence |-> 5]>>

ContextActorNodes == <<[id |-> "ta-1", name |-> "APT29"], [id |-> "ta-2", name |-> "Lazarus"]>>

ContextLinks ==
    Pairs("USED_BY", Refs("IOC", {1, 2}), Refs("ThreatActor", {1, 2}))
        \cup Pairs("EXPOSED_TO", Refs("Asset", {1}), Refs("IOC", {1, 2}))

InitContext ==
    /\ FreshConnection
    /\ storeUp = TRUE
    /\ idConstraint \in BOOLEAN
    /\ iocs = ContextIocNodes
    /\ campaigns = <<>>
    /\ actors = ContextActorNodes
    /\ \E U \in SUBSET ContextLinks : rels = SetToBag(U)
    /\ last = [op |-> "init"]
    /\ IdleConsumer
    /\ IdleThreads

NextContext ==
    \/ StoreDown
    \/ StoreBack
    \/ HealthCheck
    \/ GetAssetThreatContext

SpecContext == InitContext /\ [][NextContext]_vars

(***************************************************************************)
(* ThreatIntelligenceProducer.send_threat_intelligence.  The topic's log   *)
(* holds the records the broker accepted, as [key, value].                 *)
(***************************************************************************)
ProducerData ==
    {Data("ioc", id, Absent, Absent, None, {}, {}, {}) : id \in IocIds \cup {Absent, ""}}

\* what producer.send and future.get(timeout=10) can do: the broker
\* acknowledges in time, send raises (serialization, closed producer), the
\* future fails, or the wait times out
SendOutcomes == {"acked", "send_raises", "future_fails", "timeout"}

\* message = {"timestamp": ..., "source": "threat_intelligence_api", "data": threat_data}
Envelope(threat_data) ==
    [timestamp |-> "utcnow", source |-> "threat_intelligence_api", data |-> threat_data]

\* key=threat_data.get("id", "unknown")
RecordKey(threat_data) == IF threat_data.id = Absent THEN "unknown" ELSE threat_data.id

\* key_serializer=lambda k: k.encode('utf-8') if k else None
SerializeKey(k) == IF k = "" THEN None ELSE Some(k)

SendResultAlways(outcome) == TRUE

\* return True after future.get returned; return False in both except branches
SendResult(outcome) == outcome = "acked"

\* The records on the topic after the call: an acknowledged record is on it; a
\* record whose acknowledgement did not arrive in time may be on it or not.
Delivered(lg, outcome, rec) ==
    IF outcome = "acked" THEN {Append(lg, rec)}
    ELSE IF outcome = "timeout" THEN {lg, Append(lg, rec)}
    ELSE {lg}

SendThreatIntelligence ==
    \E threat_data \in ProducerData, outcome \in SendOutcomes :
        LET rec == [key |-> SerializeKey(RecordKey(threat_data)),
                    value |-> Envelope(threat_data)]
        IN  /\ Len(log) < MaxLog
            /\ log' \in Delivered(log, outcome, rec)
            /\ last' = [op |-> "send_threat_intelligence", data |-> threat_data,
                        outcome |-> outcome, out |-> SendResult(outcome),
                        raised |-> "none", key |-> RecordKey(threat_data),
                        value |-> Envelope(threat_data), record |-> rec]
            /\ UNCHANGED <<connVars, storeVars, position, committed, running, closed,
                           cpc, inHand, written, threadVars>>

NextProducer == SendThreatIntelligence

SpecProducer == Init /\ [][NextProducer]_vars

(***************************************************************************)
(* SpecDispatch: the stream processor on messages of every kind: the three *)
(* entity types, a type that names no entity, no type, and no data.        *)
(***************************************************************************)
DispatchMessages ==
    NoData \cup MessagesOf(OtherData)
           \cup MessagesOf({d \in IocData : d.category = Absent /\ d.confidence # Some(15)})
           \cup MessagesOf({d \in ActorData \cup CampaignData : d.confidence = None})

NextDispatch ==
    \/ StoreDown
    \/ StoreBack
    \/ HealthCheck
    \/ ProcessThreatIntelligence(DispatchMessages)

SpecDispatch == Init /\ [][NextDispatch]_vars

(***************************************************************************)
(* SpecOrder: the records of the topic are handled one after the other, in *)
(* the order in which they were published; log holds the records handled   *)
(* so far and written the offsets of those whose entity reached the graph. *)
(***************************************************************************)
OrderMessages ==
    MessagesOf({d \in AttributedIocData : d.id = "ioc-1"})
        \cup MessagesOf({d \in ActorData : d.campaigns = {}})
        \cup MessagesOf({d \in CampaignData : d.confidence = None /\ d.iocs = {}})

\* _process_message(message) for the next record of the topic: the handler of
\* the topic, process_threat_intelligence, is called with its value
Deliver ==
    /\ Len(log) < MaxLog
    /\ \E m \in OrderMessages :
          LET st == ProcessMessage(TheStore, m, Runs)
          IN  /\ WithinBounds(st)
              /\ SetStore(st)
              /\ log' = Append(log, m)
              /\ written' = IF GraphWritten(m, Runs) THEN written \cup {Len(log) + 1}
                            ELSE written
              /\ last' = [op |-> "process_threat_intelligence", msg |-> m,
                          stored |-> GraphWritten(m, Runs), found |-> Found(TheStore, m),
                          changed |-> ChangedKinds(TheStore, st),
                          relsChanged |-> (st.rels # rels)]
    /\ UNCHANGED <<connVars, idConstraint, position, committed, running, closed, cpc,
                   inHand, threadVars>>

NextOrder ==
    \/ StoreDown
    \/ StoreBack
    \/ HealthCheck
    \/ Deliver

SpecOrder == Init /\ [][NextOrder]_vars

(***************************************************************************)
(* The routes of the API below /api/v1/iocs, /api/v1/threat-actors and     *)
(* /api/v1/campaigns, in the order in which main.py registers them.  A     *)
(* path is the sequence of its segments after /api/v1; "{}" is a path      *)
(* parameter, which matches any one segment.                               *)
(***************************************************************************)
Route(method, path, handler) == [method |-> method, path |-> path, handler |-> handler]

Routes ==
    << Route("GET", <<"iocs", "asset", "{}">>, "get_asset_threat_context"),
       Route("GET", <<"iocs", "search">>, "search_iocs"),
       Route("POST", <<"iocs">>, "create_ioc"),
       Route("POST", <<"iocs", "{}", "correlate", "{}">>, "correlate_ioc_with_asset"),
       Route("GET", <<"threat-actors", "{}">>, "get_threat_actor_info"),
       Route("GET", <<"threat-actors", "search">>, "search_threat_actors"),
       Route("POST", <<"threat-actors">>, "create_threat_actor"),
       Route("GET", <<"threat-actors", "{}", "attribution">>, "get_threat_attribution"),
       Route("GET", <<"campaigns", "{}">>, "get_campaign_info"),
       Route("GET", <<"campaigns", "search">>, "search_campaigns"),
       Route("POST", <<"campaigns">>, "create_campaign"),
       Route("GET", <<"campaigns", "{}", "timeline">>, "get_campaign_timeline"),
       Route("GET", <<"campaigns", "{}", "attribution">>, "get_campaign_attribution"),
       Route("GET", <<"iocs", "{}", "relationships">>, "get_ioc_relationships") >>

\* the path of a request matches the path of a route
PathMatches(pattern, path) ==
    /\ Len(pattern) = Len(path)
    /\ \A k \in 1..Len(pattern) : pattern[k] = "{}" \/ pattern[k] = path[k]

\* The router takes the first route, in registration order, whose path and
\* method match; a path that matches under another method only is answered
\* 405, and a path that matches no route 404.
Dispatch(method, path) ==
    LET full == {k \in 1..Len(Routes) :
                    PathMatches(Routes[k].path, path) /\ Routes[k].method = method}
        partial == {k \in 1..Len(Routes) : PathMatches(Routes[k].path, path)}
    IN  IF full # {} THEN Routes[CHOOSE k \in full : \A j \in full : k <= j].handler
        ELSE IF partial # {} THEN "405" ELSE "404"

RequestSegments == {"search", "ta-1", "camp-1", "asset", "attribution", "timeline", "relationships"}

RequestPaths ==
    {<<r>> \o t : r \in {"iocs", "threat-actors", "campaigns"},
                  t \in {<<>>} \cup {<<a>> : a \in RequestSegments}
                           \cup {<<a, b>> : a, b \in RequestSegments}}

\* a request arrives and is dispatched
HttpRequest ==
    \E method \in {"GET", "POST"}, path \in RequestPaths :
        /\ last' = [op |-> "http_request", method |-> method, path |-> path,
                    handler |-> Dispatch(method, path)]
        /\ UNCHANGED <<connVars, storeVars, consumerVars, threadVars>>

NextRoutes == HttpRequest

SpecRoutes == Init /\ [][NextRoutes]_vars

(***************************************************************************)
(* Properties                                                              *)
(***************************************************************************)
Exposures(i, a) == RelCount(rels, "EXPOSED_TO", <<"Asset", a>>, <<"IOC", i>>)

\* C1: after a successful correlate_ioc_with_asset(ioc_id, asset_id), however
\* often it was called, there is exactly one EXPOSED_TO relationship from the
\* asset to the indicator.
C1_CorrelateIdempotent ==
    (last.op = "correlate_ioc_with_asset" /\ last.out) =>
        \A i \in IocMatches(iocs, last.ioc_id), a \in AssetMatches(last.asset_id) :
            Exposures(i, a) = 1

\* C2: the stream upserts keep one IOC node per id, and after an upsert that
\* was written the node of that id carries the values of the message (the
\* defaults for the keys the message lacks).
C2_StreamUpsertIdempotent ==
    /\ \A id \in IocIds : Cardinality(IocMatches(iocs, id)) <= 1
    /\ (last.op = "process_threat_intelligence" /\ last.stored
            /\ MessageType(last.msg) = "ioc") =>
          LET d == last.msg.data[1]
          IN  /\ Cardinality(IocMatches(iocs, d.id)) = 1
              /\ \A i \in IocMatches(iocs, d.id) :
                    /\ iocs[i].type = d.type
                    /\ iocs[i].confidence = (IF d.confidence = None THEN DefaultConfidence ELSE d.confidence[1])
                    /\ iocs[i].category = (IF d.category = Absent THEN "unknown" ELSE d.category)

\* C2 witness: an upsert was applied to a store that already held the node
\* with the same values (the same upsert a second time), and one node remains.
C2_Witness_SameUpsertTwice ==
    /\ last.op = "process_threat_intelligence"
    /\ last.stored
    /\ last.found = "same"
    /\ Cardinality(IocMatches(iocs, last.msg.data[1].id)) = 1

ExecFns == {"execute_query", "execute_write_query"}

\* C4: an execute call on a client that never connected, with the store
\* reachable and a statement the backend accepts, establishes the connection
\* and runs the statement.
C4_ExecuteConnectsLazily ==
    (last.op \in ExecFns /\ last.driverBefore = 0 /\ last.up /\ last.stmtOk) =>
        /\ connected /\ driver # 0
        /\ last.attempts = 1
        /\ last.rows = IocMatches(iocs, last.id)

\* C5: when health_check() returns False on a client that was connected, the
\* client is no longer connected.
C5_FailedHealthCheckInvalidates ==
    (last.op = "health_check" /\ last.wasConnected /\ ~last.out) => ~connected

C8_ConfidenceInRange ==
    /\ \A i \in 1..Len(iocs) : ConfidenceValid(iocs[i].confidence)
    /\ \A c \in 1..Len(campaigns) :
          campaigns[c].confidence # None /\ ConfidenceValid(campaigns[c].confidence[1])

\* C9: no two IOC nodes share an id.
C9_IocIdsUnique ==
    \A i, j \in 1..Len(iocs) : iocs[i].id = iocs[j].id => i = j

\* The indicators a request asks for: of the type, at least of the minimum
\* confidence, and exposed to (or observed on) the asset.
Wanted(p) ==
    {i \in 1..Len(iocs) :
        /\ p.ioc_type # None => iocs[i].type = p.ioc_type[1]
        /\ p.confidence_min # None => iocs[i].confidence >= p.confidence_min[1]
        /\ p.asset_id # None =>
              \E a \in AssetMatches(p.asset_id[1]) :
                  \E r \in BagToSet(rels) :
                      /\ r.type \in {"EXPOSED_TO", "OBSERVED_ON"}
                      /\ {r.src, r.dst} = {<<"Asset", a>>, <<"IOC", i>>}}

\* C10: on a reachable store search_iocs reports as total_count the number of
\* indicators that match the filters, and returns min(limit, total - offset)
\* of them when offset < total, none otherwise.
C10_SearchCounts ==
    (last.op = "search_iocs" /\ last.up) =>
        LET total == Cardinality(Wanted(last.params))
        IN  /\ last.total_count = total
            /\ Len(last.iocs) = (IF last.params.offset < total
                                 THEN Min(last.params.limit, total - last.params.offset)
                                 ELSE 0)

\* a record that was yielded is still with the loop
InLoop(k) == inHand = Some(k) /\ cpc \in {"check", "handle"}

\* C3: a record counts as processed (its offset is committed) only once its
\* graph write has succeeded: a committed record is written, or still in the
\* hands of the loop.
C3_AtLeastOnce ==
    \A k \in 1..committed : k \in written \/ InLoop(k)

\* C6: concurrent callers of get_session() construct at most one driver, and
\* the driver a caller works on stays the driver of the connection.
C6_OneSharedDriver ==
    /\ driversBuilt <= 1
    /\ \A t \in DOMAIN tpc : tpc[t] = "using" => tdrv[t] = driver

\* C16: _calculate_threat_level returns 'unknown' exactly for ioc_count = 0,
\* otherwise 'critical' from 10 indicators and confidence 0.8, otherwise
\* 'high' from 5 and 0.6, otherwise 'medium' from 2 and 0.4, otherwise 'low'.
C16_ThreatLevelTable ==
    last.op = "_calculate_threat_level" =>
        LET n == last.ioc_count
            c == last.max_confidence
        IN  /\ (last.out = "unknown") <=> (n = 0)
            /\ (n >= 10 /\ c >= 80) => last.out = "critical"
            /\ (n > 0 /\ ~(n >= 10 /\ c >= 80) /\ n >= 5 /\ c >= 60) => last.out = "high"
            /\ (n > 0 /\ ~(n >= 5 /\ c >= 60) /\ n >= 2 /\ c >= 40) => last.out = "medium"
            /\ (n > 0 /\ ~(n >= 2 /\ c >= 40)) => last.out = "low"
            /\ (n = 12 /\ c = 85) => last.out = "critical"
            /\ (n = 1 /\ c = 30) => last.out = "low"

\* C16 witness: the call (12, 0.85) answered 'critical'.
C16_Witness_Critical ==
    /\ last.op = "_calculate_threat_level"
    /\ last.ioc_count = 12 /\ last.max_confidence = 85
    /\ last.out = "critical"

LevelRank(level) ==
    CASE level = "unknown" -> 0
      [] level = "low" -> 1
      [] level = "medium" -> 2
      [] level = "high" -> 3
      [] level = "critical" -> 4

\* C17: _calculate_threat_level answers one of the five levels for every
\* input, and no input with fewer indicators or a lower confidence gets a
\* higher level.
C17_ThreatLevelMonotonic ==
    last.op = "_calculate_threat_level" =>
        /\ last.out \in {"unknown", "low", "medium", "high", "critical"}
        /\ \A n \in LevelCounts, c \in LevelConfidences :
              (n <= last.ioc_count /\ c <= last.max_confidence) =>
                  LevelRank(CalculateThreatLevel(n, c)) <= LevelRank(last.out)

\* C17 witness: a call that answered 'high' while the same confidence with
\* fewer indicators answers 'medium'.
C17_Witness_Raised ==
    /\ last.op = "_calculate_threat_level"
    /\ last.out = "high"
    /\ \E n \in LevelCounts :
          n < last.ioc_count /\ CalculateThreatLevel(n, last.max_confidence) = "medium"

\* i is attached to a campaign of the name by a relationship the writers create
InCampaign(i, name) ==
    \E c \in CampaignByName(campaigns, name) :
        Linked(TheStore, {"SEEN_IN", "INVOLVES"}, <<"IOC", i>>, <<"Campaign", c>>)

\* i is attributed to a threat actor of the name
UsedByActor(i, name) ==
    \E t \in ActorByName(actors, name) :
        LinkedTo(TheStore, "USED_BY", <<"IOC", i>>, <<"ThreatActor", t>>)

\* The indicators that satisfy every supplied filter of a request.
WantedAll(p) ==
    {i \in Wanted(p) :
        /\ p.threat_actor # None => UsedByActor(i, p.threat_actor[1])
        /\ p.campaign # None => InCampaign(i, p.campaign[1])}

\* C11: a search whose statements ran returns the indicators that satisfy
\* all supplied filters, in descending confidence order, cut by offset and
\* limit, and counts them in total_count.
C11_SearchFilters ==
    (last.op = "search_iocs" /\ last.conn /\ last.up /\ last.ok = <<TRUE, TRUE>>) =>
        /\ last.total_count = Cardinality(WantedAll(last.params))
        /\ \E ord \in Orders(TheStore, WantedAll(last.params)) :
              last.iocs = Page(ord, last.params.offset, last.params.limit)

\* C12: a walk through the pages of a search from offset 0, on an unchanged
\* store, that has reached the end has seen every matching indicator exactly
\* once.
C12_PagingSeesEachOnce ==
    (last.op = "search_iocs" /\ last.paging
        /\ last.params.offset + last.params.limit
              >= Cardinality(Matching(TheStore, last.params))) =>
        /\ Len(last.seen) = Cardinality(Matching(TheStore, last.params))
        /\ Range(last.seen) = Matching(TheStore, last.params)

\* C13: a search request with a filter field the indicators do not define
\* fails with InvalidFilterError and sends no statement to the store.
C13_UnknownFilterRejected ==
    (last.op = "search_iocs" /\ last.unknown # {}) =>
        /\ last.raised = "InvalidFilterError"
        /\ last.sent = 0

SearchOps == {"search_iocs", "search_campaigns", "search_threat_actors"}

\* the predicate each filter contributes to the statement of a search
PredicateOf ==
    [search_iocs |->
        [asset_id |-> "(a:Asset {id: $asset_id})-[:EXPOSED_TO|:OBSERVED_ON]-(ioc:IOC)",
         ioc_type |-> "ioc.type = $ioc_type",
         threat_actor |-> "(ioc)-[:USED_BY]->(ta:ThreatActor {name: $threat_actor})",
         campaign |-> "(ioc)-[:INVOLVES]->(c:Campaign {name: $campaign})",
         confidence_min |-> "ioc.confidence >= $confidence_min"],
     search_campaigns |->
        [name |-> "c.name CONTAINS $name",
         status |-> "c.status = $status",
         threat_actor |-> "(c)<-[:BELONGS_TO]-(ta:ThreatActor {name: $threat_actor})",
         target_industry |-> "$target_industry IN c.target_industries",
         start_date_from |-> "c.start_date >= $start_date_from",
         start_date_to |-> "c.start_date <= $start_date_to"],
     search_threat_actors |->
        [name |-> "(ta.name CONTAINS $name OR $name IN ta.aliases)",
         country |-> "ta.country = $country",
         motivation |-> "ta.motivation = $motivation",
         status |-> "ta.status = $status",
         campaign |-> "(ta)-[:BELONGS_TO]->(c:Campaign {name: $campaign})"]]

FilterNames(op) == DOMAIN PredicateOf[op]

\* the filters of a statement text, in the order of their predicates
FiltersIn(op, text) ==
    LET preds == SelectSeq(text, LAMBDA t : \E n \in FilterNames(op) : PredicateOf[op][n] = t)
    IN  [k \in 1..Len(preds) |-> CHOOSE n \in FilterNames(op) : PredicateOf[op][n] = preds[k]]

\* 1 identity filters, 2 relationship filters, 3 range filters, 4 free-text
\* filters
SpecRank ==
    [search_iocs |->
        [ioc_type |-> 1, asset_id |-> 2, threat_actor |-> 2, campaign |-> 2,
         confidence_min |-> 3],
     search_campaigns |->
        [status |-> 1, target_industry |-> 1, threat_actor |-> 2, start_date_from |-> 3,
         start_date_to |-> 3, name |-> 4],
     search_threat_actors |->
        [country |-> 1, motivation |-> 1, status |-> 1, campaign |-> 2, name |-> 4]]

\* the order of the appends in the three search operations
CodeRank ==
    [search_iocs |->
        [asset_id |-> 1, ioc_type |-> 2, threat_actor |-> 3, campaign |-> 4,
         confidence_min |-> 5],
     search_campaigns |->
        [name |-> 1, status |-> 2, threat_actor |-> 3, target_industry |-> 4,
         start_date_from |-> 5, start_date_to |-> 6],
     search_threat_actors |->
        [name |-> 1, country |-> 2, motivation |-> 3, status |-> 4, campaign |-> 5]]

Present(op, p) == {n \in FilterNames(op) : p[n] # None}

FixedTokens ==
    {"MATCH (ioc:IOC)", "MATCH", "WHERE", "AND", "(ioc:IOC)", "(c:Campaign)",
     "(ta:ThreatActor)", "RETURN ioc", "RETURN c", "RETURN ta",
     "ORDER BY ioc.confidence DESC", "ORDER BY c.start_date DESC", "ORDER BY ta.name",
     "SKIP $offset", "LIMIT $limit"}

\* C15 as stated: the predicates of a search statement stand in the order
\* identity filters, relationship filters, range filters, free-text filters.
C15_SpecPredicateOrder ==
    last.op \in SearchOps =>
        LET fs == FiltersIn(last.op, last.text)
        IN  \A a, b \in 1..Len(fs) :
                a < b => SpecRank[last.op][fs[a]] <= SpecRank[last.op][fs[b]]

\* C15 amended: a search statement holds one predicate per present filter,
\* joined by AND in the order of the code's appends (indicators: asset, type,
\* threat actor, campaign, minimum confidence; campaigns: name, status,
\* threat actor, target industry, start-date bounds; actors: name, country,
\* motivation, status, campaign), and nothing else but fixed text, so the
\* text is the same for the same set of present filters.
C15_CodePredicateOrder ==
    last.op \in SearchOps =>
        LET fs == FiltersIn(last.op, last.text)
        IN  /\ Range(fs) = Present(last.op, last.params)
            /\ \A a, b \in 1..Len(fs) :
                  a < b => CodeRank[last.op][fs[a]] < CodeRank[last.op][fs[b]]
            /\ \A k \in 1..Len(last.text) :
                  \/ last.text[k] \in FixedTokens
                  \/ \E n \in FilterNames(last.op) : PredicateOf[last.op][n] = last.text[k]
            /\ Len(SelectSeq(last.text, LAMBDA t : t = "AND")) + 1
                  = Len(fs) + (IF last.op = "search_iocs"
                                    /\ "asset_id" \in Present(last.op, last.params)
                               THEN 0 ELSE 1)

\* C15 witness: an indicator search with the asset filter and the type
\* filter, whose statement names the asset pattern before the type.
C15_Witness_AssetBeforeType ==
    /\ last.op = "search_iocs"
    /\ {"asset_id", "ioc_type"} \subseteq Present(last.op, last.params)
    /\ \E a, b \in 1..Len(last.text) :
          /\ a < b
          /\ last.text[a] = PredicateOf.search_iocs.asset_id
          /\ last.text[b] = PredicateOf.search_iocs.ioc_type

\* C20: a search during which a statement failed raises nothing and answers
\* with no indicators and total_count 0.
C20_SearchBestEffort ==
    (last.op = "search_iocs" /\ (~last.conn \/ ~last.up \/ last.ok # <<TRUE, TRUE>>)) =>
        /\ last.raised = "none"
        /\ last.iocs = <<>>
        /\ last.total_count = 0

\* C14: the text of a statement built from caller input holds none of the
\* caller's values; they occur in the parameter map only.
C14_TextFreeOfValues ==
    last.op \in SearchOps \cup {"get_graph_export"} =>
        \A k \in 1..Len(last.text) : last.text[k] \notin last.values


\* C18: a correlate call for an indicator id or an asset id that does not
\* exist, on a connected client and a reachable store, fails with a not-found
\* error, which the route surfaces as 404, and creates no relationship.
C18_CorrelateNotFound ==
    (last.op = "correlate_ioc_with_asset" /\ last.conn /\ last.up /\ ~last.found) =>
        /\ last.raised = "NotFoundError"
        /\ last.status = 404
        /\ last.added = 0

CreateOps == {"create_ioc", "create_threat_actor", "create_campaign"}

\* The nodes of the store that a create operation writes.
NodesOf(op) ==
    IF op = "create_ioc" THEN iocs
    ELSE IF op = "create_campaign" THEN campaigns
    ELSE actors

InStore(op, entity) == \E i \in 1..Len(NodesOf(op)) : NodesOf(op)[i] = entity

\* C19: create_ioc, create_threat_actor and create_campaign raise whenever the
\* store write fails or returns no row (client not connected, store
\* unreachable, statement refused), and an entity they return is a node of the
\* store.
C19_CreateFailuresPropagate ==
    (last.op \in CreateOps /\ last.out # "validation_error") =>
        /\ (~last.conn \/ ~last.up \/ last.rows = <<>>) => last.out = "raised"
        /\ last.out = "created" => (last.rows # <<>> /\ InStore(last.op, last.rows[1]))
        /\ last.out \in {"created", "raised"}

C19_Witness_RaisedOnFailedWrite ==
    /\ last.op \in CreateOps
    /\ last.out = "raised"
    /\ last.conn /\ ~last.up
    /\ Len(iocs) > 0


\* C21: a threat-intelligence message whose data describes an indicator of
\* kind K, handled while the store takes writes, leaves an IOC node with the
\* data's id whose type is K; and every IOC node the stream processor wrote
\* has a type that is a member of IOCType.
C21_StreamIocTypes ==
    /\ \A i \in 1..Len(iocs) : iocs[i].type \in IOCType
    /\ (/\ last.op = "process_threat_intelligence"
        /\ Runs
        /\ last.msg.data # None
        /\ last.msg.data[1].type \in IOCType
        /\ last.msg.data[1].id # Absent) =>
            \E i \in IocMatches(iocs, last.msg.data[1].id) :
                iocs[i].type = last.msg.data[1].type


\* C22: the IOC list of an asset's threat context, read on a connected client
\* from a reachable store, contains each indicator associated with the asset
\* exactly once, and the count that feeds the threat level is the number of
\* distinct associated indicators.
C22_ContextIocsDistinct ==
    (last.op = "get_asset_threat_context" /\ last.conn /\ last.up) =>
        /\ \A i \in ExposedIocs(TheStore, last.asset_id) : CopiesIn(i, last.iocs) = 1
        /\ last.ioc_count = Cardinality(ExposedIocs(TheStore, last.asset_id))
        /\ last.threat_level =
               CalculateThreatLevel(Cardinality(ExposedIocs(TheStore, last.asset_id)),
                                    10 * last.confidence)


\* C23: send_threat_intelligence returns True exactly when the broker
\* acknowledged the record within the wait (the record is then on the topic),
\* returns False on every send or acknowledgement failure, and never raises;
\* the record is published with key = the data's id, or "unknown" when the
\* data has none, and a value that holds the unmodified data, a timestamp and
\* a source.
C23_SendThreatIntelligence ==
    last.op = "send_threat_intelligence" =>
        /\ last.out = (last.outcome = "acked")
        /\ last.out => (Len(log) > 0 /\ log[Len(log)] = last.record)
        /\ last.raised = "none"
        /\ last.key = (IF last.data.id = Absent THEN "unknown" ELSE last.data.id)
        /\ last.value.data = last.data
        /\ DOMAIN last.value = {"timestamp", "source", "data"}
        /\ last.record.value = last.value

C23_Witness_AckedUnknownKey ==
    /\ last.op = "send_threat_intelligence"
    /\ last.out
    /\ last.data.id = Absent
    /\ Len(log) = 1


\* C24: start_consuming never ends by raising an exception that came out of
\* the iteration, and whenever it has returned, after a stop request or after
\* an error, running is False and the Kafka consumer has been closed.
C24_ConsumingEndsStopped ==
    /\ cpc # "raised"
    /\ cpc = "done" => (~running /\ closed)

C24_Witness_ReturnedAfterError ==
    /\ cpc = "done"
    /\ last.op = "start_consuming"
    /\ last.event = "iteration_error"
    /\ position > 0


EntityTypes == {"ioc", "threat_actor", "campaign"}

\* The nodes of the kind a message type names that carry the id.
NodesWithId(type, id) ==
    IF type = "ioc" THEN IocMatches(iocs, id)
    ELSE IF type = "threat_actor" THEN ActorById(actors, id)
    ELSE CampaignById(campaigns, id)

C27_ExportCounts ==
    last.op = "get_graph_export" =>
        /\ last.node_count = Some(Cardinality(last.nodes))
        /\ last.relationship_count = Some(BagCardinality(last.relationships))
        /\ "export_timestamp" \in last.keys


\* C28: the graph after a set of messages was handled does not depend on the
\* order of handling: when an indicator message that names threat actor A
\* (campaign C) and the message of A (of C) have both been written, in either
\* order, the indicator has a USED_BY relationship to A (a SEEN_IN
\* relationship to C).
C28_OrderIndependent ==
    \A j, k \in written :
        (MessageType(log[j]) = "ioc" /\ j # k) =>
            /\ (MessageType(log[k]) = "threat_actor"
                  /\ log[k].data[1].name \in log[j].data[1].threat_actors) =>
                   \E i \in IocMatches(iocs, log[j].data[1].id),
                      t \in ActorByName(actors, log[k].data[1].name) :
                       LinkedTo(TheStore, "USED_BY", <<"IOC", i>>, <<"ThreatActor", t>>)
            /\ (MessageType(log[k]) = "campaign"
                  /\ log[k].data[1].name \in log[j].data[1].campaigns) =>
                   \E i \in IocMatches(iocs, log[j].data[1].id),
                      c \in CampaignByName(campaigns, log[k].data[1].name) :
                       LinkedTo(TheStore, "SEEN_IN", <<"IOC", i>>, <<"Campaign", c>>)


\* C29: relationships written by the stream processor are visible to the read
\* that filters on them: an indicator attached to campaign C by a SEEN_IN or
\* an INVOLVES relationship, with both nodes present, that passes the other
\* filters of a search with campaign = C, matches the statement of search_iocs
\* and is counted by it.
C29_WriterReaderAgree ==
    (/\ last.op = "search_iocs"
     /\ last.conn /\ last.up /\ last.ok = <<TRUE, TRUE>>
     /\ last.params.campaign # None) =>
        \A i \in Wanted(last.params) :
            InCampaign(i, last.params.campaign[1]) =>
                /\ i \in Matching(TheStore, last.params)
                /\ last.total_count >= 1


\* C30: a GET on /api/v1/threat-actors/search, and likewise on
\* /api/v1/campaigns/search, is dispatched to the search handler, never to the
\* get-by-id handler with the id "search".
C30_SearchRouteDispatch ==
    (last.op = "http_request" /\ last.method = "GET") =>
        /\ last.path = <<"threat-actors", "search">> => last.handler = "search_threat_actors"
        /\ last.path = <<"campaigns", "search">> => last.handler = "search_campaigns"

====
